---- MODULE Spec2Model ----
(***************************************************************************)
(* A model of bloom_filter.py: the class SimpleBloomFilter (its bit array, *)
(* its hashing, add, check, save_filter, load_filter) and the module-level *)
(* example driver, together with the one file the filter persists to.      *)
(*                                                                         *)
(* Spec follows one filter object at a time through any sequence of the    *)
(* public operations; a fresh construction replaces the object (a new      *)
(* process run).  DriverSpec follows repeated runs of the example driver.  *)
(***************************************************************************)
EXTENDS Integers, Sequences, FiniteSets, TLC

\* ------------------------------------------------------------------ bounds
MaxSize == 4        \* largest size handed to the constructor
MaxHashes == 2      \* largest num_hashes handed to the constructor
MaxFileLen == 2     \* longest file found on disk before the first run
MaxRuns == 4        \* runs of the example driver that are followed

\* ------------------------------------------------------ text and characters
\* The characters '0'..'9' in order: str(d) of a one-digit int, and the
\* characters int(c) accepts.
DigitChars == <<"0", "1", "2", "3", "4", "5", "6", "7", "8", "9">>

\* A variant of str that renders every non-zero element as '1'.
str_broken(d) == IF d = 0 THEN "0" ELSE "1"
\* str(bit) as used by save_filter on each element of bit_array.
str(d) == DigitChars[d + 1]

IsDigit(c) == \E d \in 0..9 : DigitChars[d + 1] = c

\* int(c) as used by load_filter on each character of the file.
int(c) == CHOOSE d \in 0..9 : DigitChars[d + 1] = c

\* The decimal text of a natural number, as f"{i}" renders it.
RECURSIVE Decimal(_)
Decimal(n) == IF n < 10 THEN <<DigitChars[n + 1]>>
              ELSE Decimal(n \div 10) \o <<DigitChars[(n % 10) + 1]>>

\* Code points of the characters the items are made of (str.encode()).
Ord(c) == CASE c = "m" -> 109 [] c = "k" -> 107 [] c = "@" -> 64
            [] c = "g" -> 103 [] c = "a" -> 97  [] c = "i" -> 105
            [] c = "l" -> 108 [] c = "." -> 46  [] c = "c" -> 99
            [] c = "o" -> 111 [] c = "0" -> 48  [] c = "1" -> 49
            [] c = "2" -> 50  [] c = "3" -> 51  [] c = "4" -> 52
            [] c = "5" -> 53  [] c = "6" -> 54  [] c = "7" -> 55
            [] c = "8" -> 56  [] c = "9" -> 57

\* The item of the example driver, and two more items.
email == <<"m", "k", "@", "g", "m", "a", "i", "l", ".", "c", "o", "m">>
Items == {email, <<"o", "k">>, <<"a">>}

\* int(hashlib.sha256(text.encode()).hexdigest(), 16): a deterministic
\* function from the text to an unsigned integer.  SHA-256 itself is outside
\* what TLC can compute; a fixed non-linear digest of the characters stands in
\* for it (12 bits instead of 256).
RECURSIVE Digest(_, _)
Digest(h, text) == IF text = <<>> THEN h
                   ELSE Digest(((h + Ord(Head(text))) * (h + Ord(Head(text))) + 31) % 4093,
                               Tail(text))
sha256(text) == Digest(7, text)

\* ------------------------------------------------------------------- state
VARIABLES
    alive,        \* TRUE while a constructed SimpleBloomFilter object exists
    size,         \* self.size
    num_hashes,   \* self.num_hashes
    bit_array,    \* self.bit_array, a list of ints (index 0 is element 1)
    file_exists,  \* os.path.exists(file_path)
    file_text,    \* the characters of the file, <<>> when there is none
    op,           \* the operation that ran last
    arg,          \* its item, <<>> when it takes none
    ret,          \* its outcome: "None", "True", "False" or the exception raised
    added,        \* the items add has returned normally for on this object
    fresh,        \* TRUE when this object was constructed with no file on disk
    pc,           \* position of the example driver ("api" outside the driver)
    runs,         \* completed runs of the example driver
    defaults      \* the constructor's default size and num_hashes

vars == <<alive, size, num_hashes, bit_array, file_exists, file_text,
          op, arg, ret, added, fresh, pc, runs, defaults>>

filter == <<size, num_hashes, bit_array>>
disk == <<file_exists, file_text>>
driver == <<pc, runs, defaults>>

\* ------------------------------------------------------- the filter's code
\* A variant of the initial array with every bit set.
ZeroArray_ones(n) == [i \in 1..n |-> 1]
\* [0] * size
ZeroArray(n) == [i \in 1..n |-> 0]

\* _hashes(item): for i in range(num_hashes), the digest of f"{item}{i}"
\* reduced modulo size.
hashes(item, sz, k) == [j \in 1..k |-> sha256(item \o Decimal(j - 1)) % sz]

\* A list subscript b[h] raises IndexError unless 0 <= h < len(b)
\* (h is never negative here: it is a remainder modulo a positive size).
InRange(b, h) == h < Len(b)

\* A variant that counts instead of setting: self.bit_array[hash_value] += 1
SetBit_count(b, h) == [b EXCEPT ![h + 1] = @ + 1]
\* self.bit_array[hash_value] = 1
SetBit(b, h) == [b EXCEPT ![h + 1] = 1]

\* The loop of add over the hash values, in order.  The first subscript out
\* of range raises IndexError and leaves the bits set so far.
RECURSIVE AddLoop(_, _)
AddLoop(b, hs) ==
    IF hs = <<>> THEN [arr |-> b, exc |-> "None"]
    ELSE IF ~InRange(b, Head(hs)) THEN [arr |-> b, exc |-> "IndexError"]
    ELSE AddLoop(SetBit(b, Head(hs)), Tail(hs))

\* The loop of check: False at the first bit equal to 0, True when the loop
\* ends, IndexError at a subscript out of range.
RECURSIVE CheckLoop(_, _)
CheckLoop(b, hs) ==
    IF hs = <<>> THEN "True"
    ELSE IF ~InRange(b, Head(hs)) THEN "IndexError"
    ELSE IF b[Head(hs) + 1] = 0 THEN "False"
    ELSE CheckLoop(b, Tail(hs))

\* A variant that leaves the last bit out of the file.
SavedText_short(b) == [i \in 1..(Len(b) - 1) |-> str(b[i])]
\* ''.join(map(str, self.bit_array))
SavedText(b) == [i \in 1..Len(b) |-> str(b[i])]

\* list(map(int, f.read())) succeeds when every character is a digit and
\* raises ValueError otherwise.
Parses(text) == \A i \in 1..Len(text) : IsDigit(text[i])
LoadedArray(text) == [i \in 1..Len(text) |-> int(text[i])]

\* The files that may lie on disk before the first construction: any text of
\* at most MaxFileLen characters, of bits, another digit, or a non-digit.
FileChars == {"0", "1", "2", "x"}
Texts == UNION {[1..n -> FileChars] : n \in 0..MaxFileLen}

\* ------------------------------------------------------------- operations
\* load_filter, lines 101-105: with no file the array is left alone; a file
\* of digits replaces it, whatever its length; any other file raises
\* ValueError before the assignment.
Loaded(b) ==
    IF ~file_exists THEN [arr |-> b, exc |-> "None"]
    ELSE IF Parses(file_text) THEN [arr |-> LoadedArray(file_text), exc |-> "None"]
    ELSE [arr |-> b, exc |-> "ValueError"]

\* __init__, lines 31-36.  An exception of load_filter propagates out of the
\* constructor, so no object comes to exist.
init(sz, k) ==
    LET r == Loaded(ZeroArray(sz)) IN
    /\ size' = sz
    /\ num_hashes' = k
    /\ bit_array' = r.arr
    /\ alive' = (r.exc = "None")
    /\ op' = "__init__"
    /\ arg' = <<>>
    /\ ret' = r.exc
    /\ added' = {}
    /\ fresh' = ~file_exists
    /\ UNCHANGED disk

\* A variant of add that also writes the file.
add_saving(item) ==
    LET r == AddLoop(bit_array, hashes(item, size, num_hashes)) IN
    /\ alive
    /\ bit_array' = r.arr
    /\ op' = "add"
    /\ arg' = item
    /\ ret' = r.exc
    /\ added' = IF r.exc = "None" THEN added \cup {item} ELSE added
    /\ file_exists' = TRUE
    /\ file_text' = SavedText(r.arr)
    /\ UNCHANGED <<alive, size, num_hashes, fresh>>

\* add, lines 64-66.
add(item) ==
    LET r == AddLoop(bit_array, hashes(item, size, num_hashes)) IN
    /\ alive
    /\ bit_array' = r.arr
    /\ op' = "add"
    /\ arg' = item
    /\ ret' = r.exc
    /\ added' = IF r.exc = "None" THEN added \cup {item} ELSE added
    /\ UNCHANGED <<alive, size, num_hashes, fresh, disk>>

\* check, lines 78-81.
check(item) ==
    /\ alive
    /\ op' = "check"
    /\ arg' = item
    /\ ret' = CheckLoop(bit_array, hashes(item, size, num_hashes))
    /\ UNCHANGED <<alive, filter, added, fresh, disk>>

\* save_filter, lines 90-93: open(..., 'w') creates or truncates the file.
save_filter ==
    /\ alive
    /\ file_exists' = TRUE
    /\ file_text' = SavedText(bit_array)
    /\ op' = "save_filter"
    /\ arg' = <<>>
    /\ ret' = "None"
    /\ UNCHANGED <<alive, filter, added, fresh>>

\* load_filter called on a constructed object, lines 101-105.
load_filter ==
    LET r == Loaded(bit_array) IN
    /\ alive
    /\ bit_array' = r.arr
    /\ op' = "load_filter"
    /\ arg' = <<>>
    /\ ret' = r.exc
    /\ UNCHANGED <<alive, size, num_hashes, added, fresh, disk>>

\* ------------------------------------------- any caller of the public class
Sizes == 1..MaxSize
HashCounts == 1..MaxHashes

CallInit == pc = "api" /\ (\E sz \in Sizes, k \in HashCounts : init(sz, k)) /\ UNCHANGED driver
CallAdd == pc = "api" /\ (\E item \in Items : add(item)) /\ UNCHANGED driver
CallCheck == pc = "api" /\ (\E item \in Items : check(item)) /\ UNCHANGED driver
CallSave == pc = "api" /\ save_filter /\ UNCHANGED driver
CallLoad == pc = "api" /\ load_filter /\ UNCHANGED driver

\* Before the first construction: no object, and on disk either no file or
\* any text.
NoObject ==
    /\ alive = FALSE
    /\ size = 1
    /\ num_hashes = 1
    /\ bit_array = <<>>
    /\ op = "start"
    /\ arg = <<>>
    /\ ret = "None"
    /\ added = {}
    /\ fresh = FALSE

Init ==
    /\ NoObject
    /\ \/ file_exists = FALSE /\ file_text = <<>>
       \/ file_exists = TRUE /\ file_text \in Texts
    /\ pc = "api"
    /\ runs = 0
    /\ defaults = [size |-> 1, num_hashes |-> 1]

Next == CallInit \/ CallAdd \/ CallCheck \/ CallSave \/ CallLoad

Spec == Init /\ [][Next]_vars

\* ------------------------------------------------ the example driver's runs
\* Lines 109-117, run again and again in the same directory.  The defaults of
\* the constructor (100000 and 6 in the source) are any size and num_hashes
\* within the bounds, the same in every run.

\* line 109: bloom_filter = SimpleBloomFilter()
DriverConstruct ==
    /\ pc = "start"
    /\ init(defaults.size, defaults.num_hashes)
    /\ pc' = IF alive' THEN "check" ELSE "crashed"
    /\ UNCHANGED <<runs, defaults>>

\* line 113: if bloom_filter.check(email)
DriverCheck ==
    /\ pc = "check"
    /\ check(email)
    /\ pc' = CASE ret' = "True" -> "exists"
               [] ret' = "False" -> "add"
               [] OTHER -> "crashed"
    /\ UNCHANGED <<runs, defaults>>

\* line 114: print("Exists"), the last statement of that branch
DriverExists ==
    /\ pc = "exists"
    /\ pc' = "done"
    /\ runs' = runs + 1
    /\ op' = "print"
    /\ arg' = <<>>
    /\ ret' = "None"
    /\ UNCHANGED <<alive, filter, added, fresh, disk, defaults>>

\* line 116: bloom_filter.add(email)
DriverAdd ==
    /\ pc = "add"
    /\ add(email)
    /\ pc' = IF ret' = "None" THEN "save" ELSE "crashed"
    /\ UNCHANGED <<runs, defaults>>

\* line 117: bloom_filter.save_filter(), the last statement of that branch
DriverSave ==
    /\ pc = "save"
    /\ save_filter
    /\ pc' = "done"
    /\ runs' = runs + 1
    /\ UNCHANGED defaults

\* The process has ended and the script is started again: the object of the
\* previous run is gone, the file stays.
DriverRerun ==
    /\ pc \in {"done", "crashed"}
    /\ runs < MaxRuns
    /\ pc' = "start"
    /\ alive' = FALSE
    /\ size' = 1
    /\ num_hashes' = 1
    /\ bit_array' = <<>>
    /\ op' = "start"
    /\ arg' = <<>>
    /\ ret' = "None"
    /\ added' = {}
    /\ fresh' = FALSE
    /\ UNCHANGED <<runs, defaults, disk>>

DriverInit ==
    /\ NoObject
    /\ file_exists = FALSE
    /\ file_text = <<>>
    /\ pc = "start"
    /\ runs = 0
    /\ defaults \in [size : Sizes, num_hashes : HashCounts]

DriverNext ==
    \/ DriverConstruct \/ DriverCheck \/ DriverExists
    \/ DriverAdd \/ DriverSave \/ DriverRerun

DriverSpec == DriverInit /\ [][DriverNext]_vars

\* ------------------------------------------------------------- properties
Positions(item) == {hashes(item, size, num_hashes)[j] : j \in 1..num_hashes}
Ones(b) == {i \in 1..Len(b) : b[i] = 1}

\* C1: once add(x) has returned on a filter, every later check(x) on that
\* filter returns True, whatever operations of the filter ran in between.
NoFalseNegatives ==
    (alive /\ op = "check" /\ arg \in added) => ret = "True"

\* C2: save_filter() followed by the construction of a fresh filter with the
\* same size gives a filter whose bit_array is the one that was saved.
RoundTrip ==
    [][(op = "save_filter" /\ op' = "__init__" /\ size' = size)
        => (alive' /\ bit_array' = bit_array)]_vars

\* A filter restored from a file longer than any that was on disk at the
\* start, so from one that save_filter wrote, with a bit set.
RoundTripWitness ==
    /\ alive /\ op = "__init__"
    /\ file_exists /\ Len(file_text) > MaxFileLen
    /\ Ones(bit_array) # {}
    /\ file_text = SavedText(bit_array)

\* C3: from the end of construction onward len(bit_array) equals size.
SizeInvariant == alive => Len(bit_array) = size

\* C4: add and check raise no exception on a filter that construction
\* produced.
AddCheckNeverRaise ==
    (alive /\ op \in {"add", "check"}) => ret \in {"None", "True", "False"}

\* C5: every element of bit_array is 0 or 1.
BitValued == alive => \A i \in 1..Len(bit_array) : bit_array[i] \in {0, 1}

\* C6: no operation of a filter (add, check, save_filter, load_filter) turns
\* a bit from 1 to 0.
Monotonic ==
    [][(alive /\ op' \in {"add", "check", "save_filter", "load_filter"})
        => \A i \in Ones(bit_array) : i <= Len(bit_array') /\ bit_array'[i] = 1]_vars

\* C7: add(x) called again right after add(x) leaves bit_array (and the
\* outcome) as the first call left it.
AddIdempotent ==
    [][op' = "add"
        => AddLoop(bit_array', hashes(arg', size', num_hashes'))
             = [arr |-> bit_array', exc |-> ret']]_vars

\* An add that returned and left the array neither empty of ones nor full.
AddIdempotentWitness ==
    /\ alive /\ op = "add" /\ ret = "None"
    /\ Ones(bit_array) # {}
    /\ \E i \in 1..Len(bit_array) : bit_array[i] = 0

AddFrame ==
    [][op' = "add"
        => /\ Len(bit_array') = Len(bit_array)
           /\ \A i \in 1..Len(bit_array) :
                bit_array'[i] # bit_array[i]
                    => (i - 1 \in Positions(arg') /\ bit_array'[i] = 1)
           /\ ret' = "None" => \A h \in Positions(arg') : bit_array'[h + 1] = 1
           /\ UNCHANGED <<alive, size, num_hashes, disk>>]_vars

\* An add that returned while the file on disk holds an older array and a
\* position outside _hashes(x) is still 0.
AddFrameWitness ==
    /\ alive /\ op = "add" /\ ret = "None"
    /\ file_exists /\ file_text # SavedText(bit_array)
    /\ \E i \in 1..Len(bit_array) : i - 1 \notin Positions(arg) /\ bit_array[i] = 0

\* C10: once the driver has run to completion, every later run finds
\* check(email) True, takes the "Exists" branch and leaves the file as it is.
DriverRerunStable ==
    [][runs >= 1
        => /\ UNCHANGED disk
           /\ pc' \notin {"add", "save", "crashed"}
           /\ pc = "check" => (ret' = "True" /\ pc' = "exists")]_vars

\* A later run in its "Exists" branch.
DriverRerunWitness == runs >= 1 /\ pc = "exists" /\ ret = "True" /\ file_exists

====
